---- MODULE Spec2Model ----
(***************************************************************************)
(* DiffText (React component with its TypewriterText and FadeOutText       *)
(* children) as a state machine.                                           *)
(*                                                                         *)
(* A text is a sequence of one-character strings.  Time is counted in      *)
(* milliseconds and advances in animation frames of TickMs..MaxStep*TickMs *)
(* milliseconds.  A motion value that is strictly between the two ends of  *)
(* its animation is recorded as "mid": the easing curves are strictly      *)
(* monotone, so only "at the start", "in between" and "at the end" can be  *)
(* told apart by the properties below.  A render is one step together with *)
(* the effects and the cleanups it causes; the animations that end in a    *)
(* frame call their onComplete in that frame.  diffChars and diffWords are *)
(* the diff package's: a token-wise shortest edit script, diffWords taking *)
(* any two runs of whitespace for the same token.                          *)
(***************************************************************************)
EXTENDS Integers, Sequences, FiniteSets, TLC

VARIABLES oldText, newText, diffMode, showRemoved, animateChanges,
          changes, crashed, removedParts, pending, output,
          fadeInst, typeInst, fadeAnim, typeAnim, strays, cancelled, fired,
          runs, request, stream, response, served

\* the state of the DiffText in the browser
uiVars == <<oldText, newText, diffMode, showRemoved, animateChanges,
            changes, crashed, removedParts, pending, output,
            fadeInst, typeInst, fadeAnim, typeAnim, strays, cancelled, fired>>

\* the state of the backend: the runs of chatWorkflow, the request being
\* served, its SSE stream, the last response and the number of requests
serverVars == <<runs, request, stream, response, served>>

vars == <<uiVars, serverVars>>

propVars == <<oldText, newText, diffMode, showRemoved, animateChanges>>

----------------------------------------------------------------------------
(* Bounds *)

MaxLen == 3

MaxRevealLen == 40

TickMs == 100

MaxStep == 2

----------------------------------------------------------------------------
(* Program constants, in milliseconds *)

StrikeDuration == 300

FadeDuration == 500

FadeDelay == 300

MinReveal == 500

MaxReveal == 1500

MsPerChar == 40

----------------------------------------------------------------------------
(* Texts *)

Min(a, b) == IF a <= b THEN a ELSE b

Max(a, b) == IF a >= b THEN a ELSE b

Letters == {"a", "b"}

Whitespace == {" "}

Chars == Letters \cup Whitespace

RECURSIVE TextsOver(_, _)
TextsOver(alphabet, n) ==
    IF n = 0 THEN {<<>>}
    ELSE LET shorter == TextsOver(alphabet, n - 1)
         IN  shorter \cup {Append(t, c) : t \in {s \in shorter : Len(s) = n - 1}, c \in alphabet}

\* a null or undefined text prop; it is not a character, so no string contains it
NULL == <<"null">>

IsNull(t) == t = NULL

Prefix(t, n) == SubSeq(t, 1, Min(n, Len(t)))

IsPrefix(p, t) == Len(p) <= Len(t) /\ p = SubSeq(t, 1, Len(p))

RECURSIVE Concat(_)
Concat(ts) == IF ts = <<>> THEN <<>> ELSE Head(ts) \o Concat(Tail(ts))

----------------------------------------------------------------------------
(* diffChars and diffWords of the diff package *)

IsSpaceToken(tok) == tok # <<>> /\ \A k \in 1..Len(tok) : tok[k] \in Whitespace

\* diffChars: every character is a token
CharTokens(t) == [k \in 1..Len(t) |-> <<t[k]>>]

\* diffWords: a token is a maximal run of whitespace or a maximal run of word characters
RECURSIVE WordTokens(_)
WordTokens(t) ==
    IF t = <<>> THEN <<>>
    ELSE LET rest == WordTokens(Tail(t))
             c    == Head(t)
         IN  IF rest # <<>> /\ ((c \in Whitespace) <=> IsSpaceToken(Head(rest)))
             THEN <<(<<c>> \o Head(rest))>> \o Tail(rest)
             ELSE <<(<<c>>)>> \o rest

Tokenize(t, mode) == IF mode = "chars" THEN CharTokens(t) ELSE WordTokens(t)

\* diffWords ignores whitespace: two whitespace runs are the same token
TokenEquals(l, r, mode) ==
    l = r \/ (mode = "words" /\ IsSpaceToken(l) /\ IsSpaceToken(r))

RECURSIVE LcsLength(_, _, _)
LcsLength(a, b, mode) ==
    IF a = <<>> \/ b = <<>> THEN 0
    ELSE IF TokenEquals(Head(a), Head(b), mode)
         THEN 1 + LcsLength(Tail(a), Tail(b), mode)
         ELSE Max(LcsLength(Tail(a), b, mode), LcsLength(a, Tail(b), mode))

Change(value, added, removed) == [value |-> value, added |-> added, removed |-> removed]

\* the shortest edit script, one change per token; a common token carries the new text's value
RECURSIVE EditScript(_, _, _)
EditScript(a, b, mode) ==
    IF a = <<>> THEN [k \in 1..Len(b) |-> Change(b[k], TRUE, FALSE)]
    ELSE IF b = <<>> THEN [k \in 1..Len(a) |-> Change(a[k], FALSE, TRUE)]
    ELSE IF TokenEquals(Head(a), Head(b), mode)
         THEN <<Change(Head(b), FALSE, FALSE)>> \o EditScript(Tail(a), Tail(b), mode)
    ELSE IF LcsLength(Tail(a), b, mode) >= LcsLength(a, Tail(b), mode)
         THEN <<Change(Head(a), FALSE, TRUE)>> \o EditScript(Tail(a), b, mode)
         ELSE <<Change(Head(b), TRUE, FALSE)>> \o EditScript(a, Tail(b), mode)

\* mutant: merging keeps the value of the first change only
RECURSIVE MergeChangesKeepFirst(_)
MergeChangesKeepFirst(s) ==
    IF Len(s) <= 1 THEN s
    ELSE LET rest == MergeChangesKeepFirst(Tail(s))
             c    == Head(s)
             r    == Head(rest)
         IN  IF c.added = r.added /\ c.removed = r.removed
             THEN <<c>> \o Tail(rest)
             ELSE <<c>> \o rest

\* mutant: one change object per token, nothing is merged
MergeChangesNone(s) == s

\* two merged scripts, one after the other: the changes where they meet are one
\* change object if they are of the same kind
MergeJoin(left, right) ==
    LET c == left[Len(left)]
        r == right[1]
    IN  IF c.added = r.added /\ c.removed = r.removed
        THEN SubSeq(left, 1, Len(left) - 1)
                 \o <<Change(c.value \o r.value, c.added, c.removed)>> \o Tail(right)
        ELSE left \o right

\* consecutive changes of the same kind are one change object
RECURSIVE MergeChanges(_)
MergeChanges(s) ==
    IF Len(s) <= 1 THEN s
    ELSE MergeJoin(MergeChanges(SubSeq(s, 1, Len(s) \div 2)),
                   MergeChanges(SubSeq(s, Len(s) \div 2 + 1, Len(s))))

diffFunction(old, new, mode) ==
    MergeChanges(EditScript(Tokenize(old, mode), Tokenize(new, mode), mode))

----------------------------------------------------------------------------
(* DiffText: one render pass *)

\* the index of a change in the code is its position in changes, counted from 0
Indices(ch) == 0..(Len(ch) - 1)

Node(type, text) == [type |-> type, text |-> text]

\* mutant: the showRemoved test is missing
RenderPartShowAlways(part, index, removed, show, animate) ==
    IF part.removed /\ index \in removed THEN Node("null", <<>>)
    ELSE IF part.added
         THEN IF animate THEN Node("TypewriterText", part.value)
                         ELSE Node("addedSpan", part.value)
    ELSE IF part.removed
         THEN IF animate THEN Node("FadeOutText", part.value)
                         ELSE Node("removedSpan", part.value)
    ELSE Node("unchangedSpan", part.value)

\* mutant: every part that is not Removed is revealed as an Added one
RenderPartRevealAll(part, index, removed, show, animate) ==
    IF part.removed /\ index \in removed THEN Node("null", <<>>)
    ELSE IF part.removed
         THEN IF ~show THEN Node("null", <<>>)
              ELSE IF animate THEN Node("FadeOutText", part.value)
                              ELSE Node("removedSpan", part.value)
    ELSE IF animate THEN Node("TypewriterText", part.value)
                    ELSE Node("addedSpan", part.value)

\* the body of changes.map: the element returned for one part
RenderPart(part, index, removed, show, animate) ==
    IF part.removed /\ index \in removed THEN Node("null", <<>>)
    ELSE IF part.added
         THEN IF animate THEN Node("TypewriterText", part.value)
                         ELSE Node("addedSpan", part.value)
    ELSE IF part.removed
         THEN IF ~show THEN Node("null", <<>>)
              ELSE IF animate THEN Node("FadeOutText", part.value)
                              ELSE Node("removedSpan", part.value)
    ELSE Node("unchangedSpan", part.value)

RenderOutput(ch, removed, show, animate) ==
    [k \in 1..Len(ch) |-> RenderPart(ch[k], k - 1, removed, show, animate)]

Mounted(out, type) == {i \in Indices(out) : out[i + 1].type = type}

\* mutant: new Set().add(index), the previous members are not copied
RECURSIVE ApplyUpdatesFresh(_, _)
ApplyUpdatesFresh(prev, queue) ==
    IF queue = <<>> THEN prev
    ELSE ApplyUpdatesFresh({Head(queue)}, Tail(queue))

\* setRemovedParts((prev) => new Set(prev).add(index)), for the queued updates in order
RECURSIVE ApplyUpdates(_, _)
ApplyUpdates(prev, queue) ==
    IF queue = <<>> THEN prev
    ELSE ApplyUpdates(prev \cup {Head(queue)}, Tail(queue))

\* useState(new Set()) keeps the set for the life of the component
NextRemovedParts(prev, queue, old, new, mode) == ApplyUpdates(prev, queue)

----------------------------------------------------------------------------
(* FadeOutText *)

\* mutant: stop() of an animation that is not running throws
StopAnimationStrict(state) == IF state = "running" THEN "stopped" ELSE "error"

\* animation.stop(): nothing happens to an animation that has finished or was stopped
StopAnimation(state) == IF state = "running" THEN "stopped" ELSE state

FadeTotal == FadeDelay + FadeDuration

\* useMotionValue(1), useMotionValue(0)
NewFadeInst == [opacity |-> "1", strikethrough |-> "0"]

\* the effect: animate(strikethrough, 1, ...) and animate(opacity, 0, ...) start together
FadeEffect == [strike |-> "running", fade |-> "running", elapsed |-> 0]

IsRunning(anim) == anim.strike = "running" \/ anim.fade = "running"

\* mutant: the cleanup stops the strike-through only
FadeCleanupStrikeOnly(anim) ==
    [anim EXCEPT !.strike = StopAnimation(@)]

\* the cleanup of the effect
FadeCleanup(anim) ==
    [anim EXCEPT !.strike = StopAnimation(@), !.fade = StopAnimation(@)]

\* onComplete is a new arrow function in every render of DiffText, and it is a
\* dependency of the effect
OnCompleteChanged == TRUE

\* a motion value after an animation towards "to" has run for "elapsed"
Animated(current, to, elapsed, delay, duration) ==
    IF elapsed <= delay THEN current
    ELSE IF elapsed >= delay + duration THEN to
    ELSE IF current = to THEN to ELSE "mid"

----------------------------------------------------------------------------
(* TypewriterText *)

\* mutant: the lower clamp is missing
RevealDurationNoFloor(len) == Min(MaxReveal, len * MsPerChar)

\* Math.max(0.5, Math.min(1.5, text.length * 0.04)) seconds
RevealDuration(len) == Max(MinReveal, Min(MaxReveal, len * MsPerChar))

Ceil(num, den) == (num + den - 1) \div den

\* mutant: Math.floor for Math.ceil
RevealCursorFloor(len, elapsed) ==
    (len * Min(elapsed, RevealDuration(len))) \div RevealDuration(len)

\* Math.ceil(latest), latest running linearly from 0 to text.length
RevealCursor(len, elapsed) == Ceil(len * Min(elapsed, RevealDuration(len)), RevealDuration(len))

\* useMotionValue('')
NewTypeInst == [motionText |-> <<>>]

\* the effect: animate(0, text.length, {duration, ease: 'linear', onUpdate})
TypeEffect(text) ==
    [state |-> "running", elapsed |-> 0, text |-> text,
     duration |-> RevealDuration(Len(text))]

IsRevealing(anim) == anim.state = "running"

\* mutant: the effect returns no cleanup
TypeCleanupMissing(anim) == anim

TypeCleanup(anim) == [anim EXCEPT !.state = StopAnimation(@)]

----------------------------------------------------------------------------
(* The component tree: the state of DiffText and of its mounted children, *)
(* and the animations the animation engine is running for them            *)

Tree(ch, cr, rp, q, out, fi, ti, fa, ta, st, cn) ==
    [changes |-> ch, crashed |-> cr, removedParts |-> rp, pending |-> q,
     output |-> out, fadeInst |-> fi, typeInst |-> ti, fadeAnim |-> fa, typeAnim |-> ta,
     strays |-> st, cancelled |-> cn]

\* before the first render: nothing is mounted
NoneCancelled == [fade |-> {}, reveal |-> {}]

EmptyTree == Tree(<<>>, FALSE, {}, <<>>, <<>>, <<>>, <<>>, <<>>, <<>>, {}, NoneCancelled)

CurrentTree ==
    Tree(changes, crashed, removedParts, pending, output, fadeInst, typeInst, fadeAnim,
         typeAnim, strays, cancelled)

\* FadeOutText children after a render: an element with the key and type of a
\* mounted one keeps its instance (React reconciliation), any other is mounted new
FadeInstances(t, out) ==
    [i \in Mounted(out, "FadeOutText") |->
        IF i \in DOMAIN t.fadeInst THEN t.fadeInst[i] ELSE NewFadeInst]

\* the animation engine drops an animation that was stopped, and one that
\* finished once its component is gone
FadeEngine(anims, mounted) ==
    [i \in {j \in DOMAIN anims : j \in mounted \/ IsRunning(anims[j])} |-> anims[i]]

TypeEngine(anims, mounted) ==
    [i \in {j \in DOMAIN anims : j \in mounted \/ IsRevealing(anims[j])} |-> anims[i]]

\* the effects of FadeOutText after a render: cleanup on unmount, cleanup and
\* effect again when a dependency changed, effect on mount
FadeAnimations(t, out) ==
    FadeEngine([i \in (DOMAIN t.fadeAnim) \cup Mounted(out, "FadeOutText") |->
               IF i \in Mounted(out, "FadeOutText")
               THEN IF i \in DOMAIN t.fadeInst /\ ~OnCompleteChanged
                    THEN t.fadeAnim[i] ELSE FadeEffect
               ELSE IF i \in DOMAIN t.fadeInst
                    THEN FadeCleanup(t.fadeAnim[i]) ELSE t.fadeAnim[i]],
               Mounted(out, "FadeOutText"))

TypeInstances(t, out) ==
    [i \in Mounted(out, "TypewriterText") |->
        IF i \in DOMAIN t.typeInst THEN t.typeInst[i] ELSE NewTypeInst]

\* the effect of TypewriterText depends on text (the motion value never changes)
TypeAnimations(t, out) ==
    TypeEngine([i \in (DOMAIN t.typeAnim) \cup Mounted(out, "TypewriterText") |->
               IF i \in Mounted(out, "TypewriterText")
               THEN IF i \in DOMAIN t.typeInst /\ t.output[i + 1].text = out[i + 1].text
                    THEN t.typeAnim[i] ELSE TypeEffect(out[i + 1].text)
               ELSE IF i \in DOMAIN t.typeInst
                    THEN TypeCleanup(t.typeAnim[i]) ELSE t.typeAnim[i]],
               Mounted(out, "TypewriterText"))

\* animate(0, text.length, ...) animates a number of its own, so an animation
\* of an earlier run of the effect goes on, next to the one the effect starts,
\* unless the cleanup stopped it (animate(motionValue, ...) of FadeOutText
\* replaces the animation of its motion value)
Strays(t, out) ==
    {s \in t.strays \cup
            {[index |-> i, anim |-> TypeCleanup(t.typeAnim[i])] :
                i \in {j \in (DOMAIN t.typeInst) \cap Mounted(out, "TypewriterText") :
                          t.output[j + 1].text # out[j + 1].text}} :
        IsRevealing(s.anim)}

\* the children this render unmounts while their animation is running
\* (history: it records what the cleanups stopped, the code does not read it)
Cancelled(t, out) ==
    [fade   |-> {i \in (DOMAIN t.fadeInst) \ Mounted(out, "FadeOutText") :
                    t.fadeAnim[i].fade = "running"},
     reveal |-> {i \in (DOMAIN t.typeInst) \ Mounted(out, "TypewriterText") :
                    t.typeAnim[i].state = "running"}]

\* diffChars and diffWords tokenize the text with a method of the string: a
\* null or undefined text throws, and React unmounts the tree when a render throws
Throws(old, new) == IsNull(old) \/ IsNull(new)

\* a cleanup that runs after this render throws: on unmount, and before the
\* effect runs again
CleanupThrows(t, out) ==
    \/ \E i \in DOMAIN t.fadeInst :
          /\ i \notin Mounted(out, "FadeOutText") \/ OnCompleteChanged
          /\ "error" \in {FadeCleanup(t.fadeAnim[i]).strike, FadeCleanup(t.fadeAnim[i]).fade}
    \/ \E i \in DOMAIN t.typeInst :
          /\ \/ i \notin Mounted(out, "TypewriterText")
             \/ t.output[i + 1].text # out[i + 1].text
          /\ TypeCleanup(t.typeAnim[i]).state = "error"

\* one render of DiffText with the given props, and the effects that follow it
Render(t, old, new, mode, show, animate) ==
    LET rp  == NextRemovedParts(t.removedParts, t.pending, old, new, mode)
        ch  == IF Throws(old, new) THEN <<>> ELSE diffFunction(old, new, mode)
        out == RenderOutput(ch, rp, show, animate)
    IN  Tree(ch, Throws(old, new) \/ CleanupThrows(t, out), rp, <<>>, out,
             FadeInstances(t, out), TypeInstances(t, out),
             FadeAnimations(t, out), TypeAnimations(t, out), Strays(t, out),
             Cancelled(t, out))

----------------------------------------------------------------------------
(* One animation frame *)

AdvanceFade(anim, d) ==
    IF ~IsRunning(anim) THEN anim
    ELSE LET e == Min(anim.elapsed + d, FadeTotal)
         IN  [strike  |-> IF anim.strike = "running" /\ e >= StrikeDuration
                          THEN "finished" ELSE anim.strike,
              fade    |-> IF anim.fade = "running" /\ e >= FadeTotal
                          THEN "finished" ELSE anim.fade,
              elapsed |-> e]

\* the fade animations that end in this frame: each calls its onComplete
Completing(fa, d) ==
    {i \in DOMAIN fa : fa[i].fade = "running" /\ fa[i].elapsed + d >= FadeTotal}

FadeValues(inst, anim, d) ==
    LET e == Min(anim.elapsed + d, FadeTotal)
    IN  [opacity       |-> IF anim.fade = "running"
                           THEN Animated(inst.opacity, "0", e, FadeDelay, FadeDuration)
                           ELSE inst.opacity,
         strikethrough |-> IF anim.strike = "running"
                           THEN Animated(inst.strikethrough, "1", e, 0, StrikeDuration)
                           ELSE inst.strikethrough]

AdvanceType(anim, d) ==
    IF anim.state # "running" THEN anim
    ELSE LET e == Min(anim.elapsed + d, anim.duration)
         IN  [anim EXCEPT !.elapsed = e,
                          !.state = IF e >= anim.duration
                                    THEN "finished" ELSE "running"]

\* onUpdate: motionText.set(text.slice(0, Math.ceil(latest)))
OnUpdate(inst, anim, d) ==
    IF anim.state # "running" THEN inst
    ELSE [motionText |-> Prefix(anim.text, RevealCursor(Len(anim.text), anim.elapsed + d))]

\* the animations of one component update in the order they were started:
\* the motion value keeps what the last of them set
OnUpdates(inst, i, anim, st, d) ==
    IF anim.state = "running" \/ \A s \in st : s.index # i THEN OnUpdate(inst, anim, d)
    ELSE OnUpdate(inst, (CHOOSE s \in st : s.index = i).anim, d)

AdvanceStrays(st, d) ==
    {s \in {[index |-> r.index, anim |-> AdvanceType(r.anim, d)] : r \in st} :
        IsRevealing(s.anim)}

\* the orders in which the animations that end in one frame can call back
Orderings(S) ==
    {q \in [1..Cardinality(S) -> S] : \A x \in S : \E k \in DOMAIN q : q[k] = x}

Fired(i) == IF i \in DOMAIN fired THEN fired[i] ELSE 0

\* mutant: setRemovedParts(new Set(removedParts).add(index)), every call starting
\* from the set of the last render: the last call of a frame wins
HandleRemoveCompleteLastWins(queue, order) ==
    IF order = <<>> THEN queue ELSE <<order[Len(order)]>>

\* handleRemoveComplete(index), for the completions of one frame in their
\* order: each queues its update of removedParts
HandleRemoveComplete(queue, order) == queue \o order

\* mutant: prev.add(index) on the set that is the state
StateSetMutated(prev, order) == prev \cup {order[k] : k \in DOMAIN order}

\* new Set(prev).add(index) builds another Set: the Set that is the state, and
\* that the last render read, is the same after the call
StateSet(prev, order) == prev

----------------------------------------------------------------------------
(* chatWorkflow and the chat routes of the backend: data and functions *)
(*                                                                     *)
(* The backend serves one request at a time.  A prompt is a text, as   *)
(* above.  A value that JavaScript leaves undefined is the empty       *)
(* string, the run id 0 or the kind "missing".  mastra's engine, the   *)
(* agent and the stream helpers of utils/streamUtils are outside the   *)
(* two files: the engine runs the steps of a workflow in the order of  *)
(* its then() calls, stops at a step that calls suspend, and resumes a *)
(* suspended step only; the agent answers or throws; an emission       *)
(* enqueues one event on an open stream and throws on a closed one.    *)

\* the runs the backend creates
MaxRuns == 2

\* the requests the backend serves
MaxRequests == 2

UpperCase == <<"A", "B", "C", "D", "E", "F", "G", "H", "I", "J", "K", "L", "M",
               "N", "O", "P", "Q", "R", "S", "T", "U", "V", "W", "X", "Y", "Z">>

LowerCase == <<"a", "b", "c", "d", "e", "f", "g", "h", "i", "j", "k", "l", "m",
               "n", "o", "p", "q", "r", "s", "t", "u", "v", "w", "x", "y", "z">>

\* String.prototype.toLowerCase
toLowerCase(text) ==
    [k \in DOMAIN text |->
        IF \E j \in DOMAIN UpperCase : UpperCase[j] = text[k]
        THEN LowerCase[CHOOSE j \in DOMAIN UpperCase : UpperCase[j] = text[k]]
        ELSE text[k]]

\* String.prototype.includes
includes(text, word) ==
    \E k \in 0..(Len(text) - Len(word)) : SubSeq(text, k + 1, k + Len(word)) = word

Sensitive == <<"s", "e", "n", "s", "i", "t", "i", "v", "e">>

Approve == <<"a", "p", "p", "r", "o", "v", "e">>

\* the prompts of the requests: "hi", "Sensitive", "disAPPROVEd", "aprove it"
PlainPrompt == <<"h", "i">>

CapitalPrompt == <<"S", "e", "n", "s", "i", "t", "i", "v", "e">>

InnerPrompt == <<"d", "i", "s", "A", "P", "P", "R", "O", "V", "E", "d">>

NearPrompt == <<"a", "p", "r", "o", "v", "e", " ", "i", "t">>

Prompts == {PlainPrompt, CapitalPrompt, InnerPrompt, NearPrompt}

\* a stepPath as the schemas allow it: absent, a string, a string[] or a
\* string[][] (an array whose first element is an array)
StepPath(kind, str, list, lists) ==
    [kind |-> kind, str |-> str, list |-> list, lists |-> lists]

NoStepPath == StepPath("missing", "", <<>>, <<>>)

StringPath(s) == StepPath("string", s, <<>>, <<>>)

ArrayPath(l) == StepPath("array", "", l, <<>>)

NestedPath(ll) == StepPath("nested", "", <<>>, ll)

StepPaths ==
    { NoStepPath, StringPath("userApproval"), StringPath("callAgent"), StringPath(""),
      ArrayPath(<<"userApproval">>),
      NestedPath(<<<<"userApproval">>, <<"callAgent">>>>) }

\* Array.isArray(stepPath)
IsArray(stepPath) == stepPath.kind \in {"array", "nested"}

\* the truth value of a stepPath in a condition: an array is true, a string
\* is true when not empty, undefined is false
Truthy(stepPath) == IsArray(stepPath) \/ (stepPath.kind = "string" /\ stepPath.str # "")

normalizeStepPath(stepPath) ==
    IF IsArray(stepPath)
    THEN IF stepPath.kind = "nested" THEN stepPath.lists[1] ELSE stepPath.list
    ELSE IF Truthy(stepPath) THEN <<stepPath.str>> ELSE <<"userApproval">>

\* the step option of workflowRun.resume in /chat/resume
ResumeStep(stepPath) ==
    IF IsArray(stepPath)
    THEN IF stepPath.kind = "nested" THEN stepPath.lists[1] ELSE stepPath.list
    ELSE <<"userApproval">>

\* the step option of workflowRun.resume in /chat/resume/stream
ResumeStreamStep(stepPath) ==
    IF IsArray(stepPath)
    THEN IF stepPath.kind = "nested" THEN stepPath.lists[1] ELSE stepPath.list
    ELSE IF Truthy(stepPath) THEN <<stepPath.str>> ELSE <<"userApproval">>

\* an entry of additionalContext.humanInTheLoop.data
SuspendData(runId, stepPath, state) ==
    [runId |-> runId, stepPath |-> stepPath, state |-> state]

NoSuspendData == SuspendData(0, NoStepPath, "")

\* additionalContext: absent, an object or a string; json says that the
\* string is JSON text, hasData that humanInTheLoop.data is there, and data
\* lists the values of its entries
Context(kind, json, hasData, data) ==
    [kind |-> kind, json |-> json, hasData |-> hasData, data |-> data]

NoContext == Context("missing", FALSE, FALSE, <<>>)

Entries ==
    { SuspendData(r, ArrayPath(<<"userApproval">>), "suspended") : r \in 1..MaxRuns }
    \cup { SuspendData(1, StringPath("userApproval"), "suspended"),
           SuspendData(1, NestedPath(<<<<"userApproval">>, <<"callAgent">>>>), "suspended"),
           SuspendData(1, ArrayPath(<<"userApproval">>), "completed"),
           SuspendData(0, ArrayPath(<<"userApproval">>), "suspended"),
           SuspendData(1, NoStepPath, "suspended") }

Contexts ==
    { NoContext, Context("string", FALSE, FALSE, <<>>), Context("object", TRUE, FALSE, <<>>),
      Context("object", TRUE, TRUE,
              << SuspendData(1, ArrayPath(<<"userApproval">>), "completed"),
                 SuspendData(1, ArrayPath(<<"userApproval">>), "suspended") >>),
      Context("string", TRUE, TRUE,
              << SuspendData(1, ArrayPath(<<"userApproval">>), "suspended") >>) }
    \cup { Context("object", TRUE, TRUE, <<e>>) : e \in Entries }

\* JSON.parse of a string, the value itself otherwise; threw says that
\* JSON.parse failed
parseAdditionalContext(additionalContext) ==
    IF additionalContext.kind = "string"
    THEN IF additionalContext.json
         THEN [threw |-> FALSE, value |-> [additionalContext EXCEPT !.kind = "object"]]
         ELSE [threw |-> TRUE, value |-> NoContext]
    ELSE [threw |-> FALSE, value |-> additionalContext]

\* an extractSuspendData that does not look at the state of the entry
extractSuspendDataAnyState(parsedAdditionalContext) ==
    IF ~(parsedAdditionalContext.kind = "object" /\ parsedAdditionalContext.hasData)
    THEN NoSuspendData
    ELSE IF parsedAdditionalContext.data = <<>>
         THEN NoSuspendData
         ELSE LET suspendData == parsedAdditionalContext.data[1]
              IN  IF suspendData.runId # 0 /\ Truthy(suspendData.stepPath)
                  THEN suspendData
                  ELSE NoSuspendData

\* the suspend data of the context, NoSuspendData for null
extractSuspendData(parsedAdditionalContext) ==
    IF ~(parsedAdditionalContext.kind = "object" /\ parsedAdditionalContext.hasData)
    THEN NoSuspendData
    ELSE IF parsedAdditionalContext.data = <<>>
         THEN NoSuspendData
         ELSE LET suspendData == parsedAdditionalContext.data[1]
              IN  IF /\ suspendData.runId # 0
                     /\ Truthy(suspendData.stepPath)
                     /\ suspendData.state = "suspended"
                  THEN suspendData
                  ELSE NoSuspendData

\* resumeData of a step: none for the first execution of the step
ResumeData(present, approved, feedback) ==
    [present |-> present, approved |-> approved, feedback |-> feedback]

NoResumeData == ResumeData(FALSE, FALSE, "")

\* the data that goes from step to step
InputData(prompt, streamController) ==
    [prompt |-> prompt, streamController |-> streamController, messages |-> <<>>,
     approved |-> FALSE, feedback |-> ""]

fetchContext(inputData) ==
    LET frontendContext == inputData.prompt
    IN  [inputData EXCEPT !.prompt = frontendContext]

buildAgentContext(inputData) ==
    LET messages == << [role |-> "user", content |-> inputData.prompt] >>
    IN  [inputData EXCEPT !.messages = messages]

\* the text before the prompt in the payload of suspend
PendingApproval == <<"Request pending approval: ">>

NoPayload == [pendingResponse |-> <<>>, requiresApproval |-> FALSE]

\* a check that tells the cases of the letters apart
needsApprovalExact(messages) ==
    \E k \in DOMAIN messages :
        \/ includes(messages[k].content, Sensitive)
        \/ includes(messages[k].content, Approve)

needsApproval(messages) ==
    \E k \in DOMAIN messages :
        \/ includes(toLowerCase(messages[k].content), Sensitive)
        \/ includes(toLowerCase(messages[k].content), Approve)

\* userApprovalStep.execute: suspended says that the step called suspend
userApprovalStep(inputData, resumeData) ==
    LET approved == resumeData.present /\ resumeData.approved
        feedback == IF resumeData.present THEN resumeData.feedback ELSE ""
    IN  IF needsApproval(inputData.messages) /\ ~approved
        THEN [suspended |-> TRUE,
              suspendPayload |-> [pendingResponse |->
                                      PendingApproval \o inputData.messages[1].content,
                                  requiresApproval |-> TRUE],
              output |-> [inputData EXCEPT !.approved = FALSE]]
        ELSE [suspended |-> FALSE,
              suspendPayload |-> NoPayload,
              output |-> [inputData EXCEPT !.approved = TRUE,
                                           !.feedback = IF feedback # "" THEN feedback
                                                        ELSE "Auto-approved"]]

\* streamController && typeof streamController.enqueue === 'function': the
\* controller of the request being served ("current") and the one of an
\* earlier request ("stale") have enqueue, a controller that went through
\* the engine's storage ("invalid") and no controller ("undefined") do not
isValidStreamController(streamController) == streamController \in {"current", "stale"}

\* an event of an SSE stream, and a JSON response body
Event(type, text, state, content, runId, stepPath) ==
    [type |-> type, text |-> text, state |-> state, content |-> content,
     runId |-> runId, stepPath |-> stepPath]

ProgressUpdate(text, state) == Event("progress_update", text, state, "", 0, <<>>)

ChatOutput(content) == Event("ChatOutput", "", "", content, 0, <<>>)

ErrorBody(text) == Event("error", text, "", "", 0, <<>>)

NoBody == Event("none", "", "", "", 0, <<>>)

\* createSuspendResponse, and the suspend response of a new run
createSuspendResponse(runId, result, message) ==
    Event("humanInTheLoop", message, "suspended", "", runId, result.suspended[1])

\* the stream after enqueue of the event on the controller; an enqueue on a
\* closed stream or on a stale controller throws and leaves it as it is
Enqueue(s, streamController, event) ==
    IF streamController = "current" /\ s.state = "open"
    THEN [s EXCEPT !.events = Append(@, event)]
    ELSE s

\* the steps of chatWorkflow in the order of its then() calls
chatWorkflow == <<"fetchContext", "buildAgentContext", "userApproval", "callAgent">>

\* the step the engine executes after the given one, "end" after the last
StepAfter(step) ==
    LET k == CHOOSE j \in DOMAIN chatWorkflow : chatWorkflow[j] = step
    IN  IF k < Len(chatWorkflow) THEN chatWorkflow[k + 1] ELSE "end"

\* a run of chatWorkflow: the data between the steps, the engine's status
\* and step, the steps executed so far, the position in callAgent, the
\* state of the agent call and the events callAgent enqueued
Run(prompt, streamController) ==
    [data |-> InputData(prompt, streamController), status |-> "running",
     next |-> chatWorkflow[1], resumeData |-> NoResumeData, trace |-> <<>>,
     suspended |-> <<>>, suspendPayload |-> NoPayload, pos |-> "start",
     agent |-> "idle", emitted |-> <<>>, content |-> ""]

\* workflowRun.resume throws unless the run exists and the step is one of
\* its suspended steps
Resumable(rs, runId, step) ==
    /\ runId \in DOMAIN rs
    /\ rs[runId].status = "suspended"
    /\ \E k \in DOMAIN rs[runId].suspended : rs[runId].suspended[k] = step

\* the run after workflowRun.resume entered the suspended step
Resumed(run, resumeData) ==
    [run EXCEPT !.status = "running", !.resumeData = resumeData, !.suspended = <<>>]

Request(pc, route, prompt, context, runId, stepPath, resumeData) ==
    [pc |-> pc, route |-> route, prompt |-> prompt, context |-> context,
     runId |-> runId, stepPath |-> stepPath, resumeData |-> resumeData,
     action |-> "none", run |-> 0, step |-> <<>>, approved |-> FALSE, started |-> 0,
     threw |-> FALSE]

NoRequest == Request("idle", "", <<>>, NoContext, 0, NoStepPath, NoResumeData)

NoStream == [state |-> "none", events |-> <<>>]

Response(code, body, threw) == [code |-> code, body |-> body, threw |-> threw]

ServerInit ==
    /\ runs = <<>>
    /\ request = NoRequest
    /\ stream = NoStream
    /\ response = Response(0, NoBody, FALSE)
    /\ served = 0

----------------------------------------------------------------------------
(* Actions *)

\* the texts the parent passes: "", "a", "b" and "aba"
UITexts == {<<>>, <<"a">>, <<"b">>, <<"a", "b", "a">>}

Modes == {"words", "chars"}

SetTree(t) ==
    /\ changes' = t.changes
    /\ crashed' = t.crashed
    /\ removedParts' = t.removedParts
    /\ pending' = t.pending
    /\ output' = t.output
    /\ fadeInst' = t.fadeInst
    /\ typeInst' = t.typeInst
    /\ fadeAnim' = t.fadeAnim
    /\ typeAnim' = t.typeAnim
    /\ strays' = t.strays
    /\ cancelled' = t.cancelled

\* the state after the first render of a DiffText with the given props
FirstRender(old, new, mode, show, animate) ==
    LET t == Render(EmptyTree, old, new, mode, show, animate)
    IN  /\ oldText = old /\ newText = new /\ diffMode = mode
        /\ showRemoved = show /\ animateChanges = animate
        /\ changes = t.changes /\ crashed = t.crashed
        /\ removedParts = t.removedParts /\ pending = t.pending
        /\ output = t.output
        /\ fadeInst = t.fadeInst /\ typeInst = t.typeInst
        /\ fadeAnim = t.fadeAnim /\ typeAnim = t.typeAnim
        /\ strays = t.strays
        /\ cancelled = t.cancelled
        /\ fired = <<>>
        /\ ServerInit

Init ==
    \E old \in UITexts, new \in UITexts, mode \in Modes,
       show \in BOOLEAN, animate \in BOOLEAN : FirstRender(old, new, mode, show, animate)

\* the parent renders DiffText again, with the same or with other props
Rerender(old, new, mode, show, animate) ==
    /\ ~crashed
    /\ oldText' = old /\ newText' = new /\ diffMode' = mode
    /\ showRemoved' = show /\ animateChanges' = animate
    /\ \E t \in {Render(CurrentTree, old, new, mode, show, animate)} : SetTree(t)
    /\ UNCHANGED fired
    /\ UNCHANGED serverVars

\* React renders DiffText again because setRemovedParts was called
Flush ==
    /\ ~crashed
    /\ pending # <<>>
    /\ \E t \in {Render(CurrentTree, oldText, newText, diffMode, showRemoved,
                           animateChanges)} : SetTree(t)
    /\ UNCHANGED <<propVars, fired>>
    /\ UNCHANGED serverVars

\* an animation frame, d milliseconds after the previous one
Tick(d) ==
    /\ ~crashed
    /\ fadeAnim' = FadeEngine([i \in DOMAIN fadeAnim |-> AdvanceFade(fadeAnim[i], d)],
                               DOMAIN fadeInst)
    /\ fadeInst' = [i \in DOMAIN fadeInst |-> FadeValues(fadeInst[i], fadeAnim[i], d)]
    /\ typeAnim' = TypeEngine([i \in DOMAIN typeAnim |-> AdvanceType(typeAnim[i], d)],
                               DOMAIN typeInst)
    /\ typeInst' = [i \in DOMAIN typeInst |->
                        OnUpdates(typeInst[i], i, typeAnim[i], strays, d)]
    /\ strays' = AdvanceStrays(strays, d)
    /\ \E order \in Orderings(Completing(fadeAnim, d)) :
          /\ pending' = HandleRemoveComplete(pending, order)
          /\ removedParts' = StateSet(removedParts, order)
    /\ fired' = [i \in (DOMAIN fired) \cup Completing(fadeAnim, d) |->
                    IF i \in Completing(fadeAnim, d) THEN Min(Fired(i) + 1, 2) ELSE fired[i]]
    /\ cancelled' = NoneCancelled
    /\ UNCHANGED <<propVars, changes, crashed, output>>
    /\ UNCHANGED serverVars

Next ==
    \/ \E old \in UITexts, new \in UITexts, mode \in Modes,
          show \in BOOLEAN, animate \in BOOLEAN : Rerender(old, new, mode, show, animate)
    \/ Rerender(NULL, newText, diffMode, showRemoved, animateChanges)
    \/ Rerender(oldText, NULL, diffMode, showRemoved, animateChanges)
    \/ Flush
    \/ \E k \in 1..MaxStep : Tick(k * TickMs)

Spec == Init /\ [][Next]_vars

\* one diff for the life of the component: the parent renders DiffText again
\* with the same texts and mode; frames keep coming, and React renders a
\* component whose state was set
NextFixed ==
    \/ \E show \in BOOLEAN, animate \in BOOLEAN :
          Rerender(oldText, newText, diffMode, show, animate)
    \/ Flush
    \/ \E k \in 1..MaxStep : Tick(k * TickMs)

FairSpec ==
    /\ Init /\ [][NextFixed]_vars
    /\ WF_vars(\E k \in 1..MaxStep : Tick(k * TickMs))
    /\ WF_vars(Flush)

\* the diff alone: DiffText rendered statically, for every pair of texts
DiffTexts == TextsOver(Chars, MaxLen)

InitDiff ==
    \E old \in DiffTexts, new \in DiffTexts, mode \in Modes :
        FirstRender(old, new, mode, TRUE, FALSE)

NextDiff ==
    \E mode \in Modes : Rerender(oldText, newText, mode, showRemoved, animateChanges)

SpecDiff == InitDiff /\ [][NextDiff]_vars

\* identical texts: a DiffText that shows some diff is given one text, any
\* text, as oldText and as newText
InitSame ==
    \E old \in UITexts, new \in UITexts, mode \in Modes,
       show \in BOOLEAN, animate \in BOOLEAN : FirstRender(old, new, mode, show, animate)

NextSame ==
    \/ \E t \in DiffTexts, mode \in Modes :
          Rerender(t, t, mode, showRemoved, animateChanges)
    \/ \E show \in BOOLEAN, animate \in BOOLEAN :
          Rerender(oldText, newText, diffMode, show, animate)
    \/ Flush
    \/ \E k \in 1..MaxStep : Tick(k * TickMs)

SpecSame == InitSame /\ [][NextSame]_vars

\* the reveal alone: newText is streamed into an empty oldText, so the one
\* Added segment grows by a character at a time, or is replaced by a short text
Repeat(c, n) == [k \in 1..n |-> c]

RevealTexts == {Repeat("a", n) : n \in 0..MaxRevealLen}

InitReveal ==
    \E t \in RevealTexts : FirstRender(<<>>, t, "chars", TRUE, TRUE)

NextReveal ==
    \/ /\ Len(newText) < MaxRevealLen
       /\ Rerender(oldText, Append(newText, "a"), diffMode, showRemoved, animateChanges)
    \/ Rerender(oldText, <<"b">>, diffMode, showRemoved, animateChanges)
    \/ Rerender(oldText, newText, diffMode, showRemoved, animateChanges)
    \/ \E k \in 1..MaxStep : Tick(k * TickMs)

SpecReveal == InitReveal /\ [][NextReveal]_vars

----------------------------------------------------------------------------
(* chatWorkflow and the chat routes of the backend: actions *)

Idle == request.pc \in {"idle", "done"}

Awaiting == request.pc = "awaiting"

\* the engine is about to execute the step in the run the request awaits
Executing(step) ==
    /\ Awaiting
    /\ runs[request.run].status = "running"
    /\ runs[request.run].next = step

\* the controller the route hands to the workflow and the stream it answers on
ControllerOf(route) == IF route \in {"/chat/stream", "/chat/resume/stream"}
                       THEN "current" ELSE "undefined"

StreamOf(route) == IF route \in {"/chat/stream", "/chat/resume/stream"}
                   THEN [state |-> "open", events |-> <<>>] ELSE NoStream

\* the stream when the handler is done: ended, unless the client closed it
EndStream(s) == [s EXCEPT !.state = IF @ = "open" THEN "ended" ELSE @]

\* the handler answers req: a JSON body with the code on a JSON route, the
\* body as an event of the stream on a stream route, and the stream ends
Answer(req, s, code, body) ==
    /\ request' = [req EXCEPT !.pc = "done"]
    /\ IF s.state = "none"
       THEN /\ response' = Response(code, body, FALSE)
            /\ stream' = s
       ELSE /\ response' = Response(200, NoBody, s.state = "closed")
            /\ stream' = EndStream(Enqueue(s, "current", body))

\* workflowRun.resume in the handler of req: the engine enters the step, or
\* resume throws and the handler answers with onThrow
Resume(req, runId, step, resumeData, onThrow) ==
    LET r == [req EXCEPT !.action = "resume", !.run = runId, !.step = step,
                         !.approved = resumeData.approved]
    IN  IF Resumable(runs, runId, step)
        THEN /\ runs' = [runs EXCEPT ![runId] = Resumed(@, resumeData)]
             /\ request' = r
             /\ stream' = StreamOf(req.route)
             /\ UNCHANGED response
        ELSE /\ Answer([r EXCEPT !.threw = TRUE], StreamOf(req.route),
                       onThrow.code, onThrow.body)
             /\ UNCHANGED runs

\* resumeWorkflow(suspendData, controller, context)
resumeWorkflow(req, suspendData, context, onThrow) ==
    Resume(req, suspendData.runId, normalizeStepPath(suspendData.stepPath),
           ResumeData(TRUE, TRUE, context), onThrow)

\* chatWorkflow.createRunAsync and run.start
Start(req) ==
    /\ Len(runs) < MaxRuns
    /\ runs' = Append(runs, Run(req.prompt, ControllerOf(req.route)))
    /\ request' = [req EXCEPT !.action = "start", !.run = Len(runs) + 1,
                              !.started = Len(runs) + 1]
    /\ stream' = StreamOf(req.route)
    /\ UNCHANGED response

\* POST /chat and POST /chat/stream, until the handler awaits the workflow
Chat(route, prompt, additionalContext) ==
    /\ Idle
    /\ served < MaxRequests
    /\ served' = served + 1
    /\ LET req == Request("awaiting", route, prompt, additionalContext, 0,
                          NoStepPath, NoResumeData)
           parsedAdditionalContext == parseAdditionalContext(additionalContext)
           suspendData == extractSuspendData(parsedAdditionalContext.value)
       IN  IF parsedAdditionalContext.threw
           THEN /\ Answer(req, NoStream, 500, ErrorBody("Unexpected token"))
                /\ UNCHANGED runs
           ELSE IF suspendData # NoSuspendData
                THEN resumeWorkflow(req, suspendData,
                                    IF route = "/chat" THEN "Resumed via chat"
                                    ELSE "Resumed via stream",
                                    [code |-> 500, body |-> ErrorBody("Resume failed")])
                ELSE Start(req)
    /\ UNCHANGED uiVars

\* POST /chat/resume, until the handler awaits the workflow; when resume
\* throws the handler answers with its demonstration response
ChatResume(runId, stepPath, resumeData) ==
    /\ Idle
    /\ served < MaxRequests
    /\ served' = served + 1
    /\ Resume(Request("awaiting", "/chat/resume", <<>>, NoContext, runId, stepPath, resumeData),
              runId, ResumeStep(stepPath), resumeData,
              [code |-> 200,
               body |-> ChatOutput(IF resumeData.approved
                                   THEN "Request approved and processed"
                                   ELSE "Request was denied by the user.")])
    /\ UNCHANGED uiVars

\* POST /chat/resume/stream, until the handler awaits the workflow
ChatResumeStream(runId, stepPath, resumeData) ==
    /\ Idle
    /\ served < MaxRequests
    /\ served' = served + 1
    /\ Resume(Request("awaiting", "/chat/resume/stream", <<>>, NoContext, runId, stepPath,
                      resumeData),
              runId, ResumeStreamStep(stepPath), resumeData,
              [code |-> 200, body |-> ErrorBody("Resume failed")])
    /\ UNCHANGED uiVars

\* the run after the engine executed the step, which returned the data
Executed(run, step, data) ==
    [run EXCEPT !.data = data, !.trace = Append(@, step), !.next = StepAfter(step)]

FetchContext ==
    /\ Executing("fetchContext")
    /\ runs' = [runs EXCEPT ![request.run] =
                   Executed(@, "fetchContext", fetchContext(@.data))]
    /\ UNCHANGED <<request, stream, response, served, uiVars>>

BuildAgentContext ==
    /\ Executing("buildAgentContext")
    /\ runs' = [runs EXCEPT ![request.run] =
                   Executed(@, "buildAgentContext", buildAgentContext(@.data))]
    /\ UNCHANGED <<request, stream, response, served, uiVars>>

\* the engine executes userApprovalStep, with the resumeData of a resume
UserApproval ==
    /\ Executing("userApproval")
    /\ LET run == runs[request.run]
           step == userApprovalStep(run.data, run.resumeData)
       IN  runs' = [runs EXCEPT ![request.run] =
               IF step.suspended
               THEN [run EXCEPT !.status = "suspended",
                                !.suspended = << <<"userApproval">> >>,
                                !.suspendPayload = step.suspendPayload,
                                !.trace = Append(@, "userApproval")]
               ELSE [run EXCEPT !.data = step.output,
                                !.trace = Append(@, "userApproval"),
                                !.next = StepAfter("userApproval")]]
    /\ UNCHANGED <<request, stream, response, served, uiVars>>

\* callAgent is at the position pos of its execute
InCallAgent(pos) == Executing("callAgent") /\ runs[request.run].pos = pos

\* an emission that does not look at the controller of the run
EmitAlways(s, run, event) == Enqueue(s, "current", event)

\* streamProgressUpdate and streamJSONEvent in callAgent: the stream after
\* the emission of the event by the run; under a valid controller the event
\* is enqueued, or the emission throws and the catch block goes on
Emit(s, run, event) ==
    IF isValidStreamController(run.data.streamController)
    THEN Enqueue(s, run.data.streamController, event)
    ELSE s

\* the run after the emission that made the stream after of the stream
\* before, callAgent going on to the position pos
Emitting(run, before, after, event, pos) ==
    [run EXCEPT !.pos = pos,
                !.emitted = IF after # before THEN Append(@, event) ELSE @]

\* callAgent up to the call of the agent
CallAgentProgress ==
    /\ InCallAgent("start")
    /\ LET run == runs[request.run]
           event == ProgressUpdate("Generating response...", "in_progress")
           after == Emit(stream, run, event)
       IN  /\ stream' = after
           /\ runs' = [runs EXCEPT ![request.run] =
                  [Emitting(run, stream, after, event, "generate")
                      EXCEPT !.trace = Append(@, "callAgent")]]
    /\ UNCHANGED <<request, response, served, uiVars>>

\* callAgent calls starterAgent.generate
AgentCall ==
    /\ InCallAgent("generate")
    /\ runs' = [runs EXCEPT ![request.run] = [@ EXCEPT !.pos = "generating",
                                                      !.agent = "called"]]
    /\ UNCHANGED <<request, stream, response, served, uiVars>>

\* starterAgent.generate returns its response, or throws and the step fails
AgentReturn(ok) ==
    /\ InCallAgent("generating")
    /\ runs' = [runs EXCEPT ![request.run] =
           IF ok THEN [@ EXCEPT !.pos = "result", !.agent = "returned", !.content = "reply"]
           ELSE [@ EXCEPT !.status = "failed", !.agent = "threw"]]
    /\ UNCHANGED <<request, stream, response, served, uiVars>>

\* callAgent emits the result
CallAgentResult ==
    /\ InCallAgent("result")
    /\ LET run == runs[request.run]
           event == ChatOutput(run.content)
           after == Emit(stream, run, event)
       IN  /\ stream' = after
           /\ runs' = [runs EXCEPT ![request.run] =
                          Emitting(run, stream, after, event, "complete")]
    /\ UNCHANGED <<request, response, served, uiVars>>

\* callAgent emits the last progress update and returns the result: the
\* run succeeds
CallAgentComplete ==
    /\ InCallAgent("complete")
    /\ LET run == runs[request.run]
           event == ProgressUpdate("Response generated", "complete")
           after == Emit(stream, run, event)
       IN  /\ stream' = after
           /\ runs' = [runs EXCEPT ![request.run] =
                  [Emitting(run, stream, after, event, "returned")
                      EXCEPT !.status = "success", !.next = StepAfter("callAgent")]]
    /\ UNCHANGED <<request, response, served, uiVars>>

\* the client goes away while the request is served: the stream is closed
Disconnect ==
    /\ Awaiting
    /\ stream.state = "open"
    /\ stream' = [stream EXCEPT !.state = "closed"]
    /\ UNCHANGED <<runs, request, response, served, uiVars>>

\* what the handler of the route answers when the awaited workflow ended
\* with the result; /chat/stream has no answer of its own for a new run
\* that succeeded, and threw says that it throws for one that failed
Outcome(req, result) ==
    LET id == IF req.action = "start" THEN req.started ELSE req.run
        message == IF req.action = "start" THEN "Workflow suspended - approval required"
                   ELSE "Workflow suspended again - approval required"
        started == req.route = "/chat/stream" /\ req.action = "start"
        direct == req.route \in {"/chat/resume", "/chat/resume/stream"}
    IN  IF result.status = "success"
        THEN [code |-> 200, threw |-> FALSE,
              body |-> IF started THEN NoBody ELSE ChatOutput(result.content)]
        ELSE IF result.status = "suspended" /\ ~direct
             THEN [code |-> 200, threw |-> FALSE,
                   body |-> createSuspendResponse(id, result, message)]
             ELSE [code |-> 500, threw |-> started,
                   body |-> IF started THEN NoBody ELSE ErrorBody(result.status)]

\* a controller after its request ended: its stream is closed, and the
\* engine's storage may have kept the object or a copy without functions
Ended == {"stale", "invalid"}

\* the awaited workflow ended and the handler answers
Respond ==
    /\ Awaiting
    /\ runs[request.run].status # "running"
    /\ LET out == Outcome(request, runs[request.run])
       IN  /\ request' = [request EXCEPT !.pc = "done"]
           /\ IF stream.state = "none"
              THEN /\ response' = Response(out.code, out.body, FALSE)
                   /\ stream' = stream
              ELSE /\ response' = Response(200, NoBody,
                                           out.threw \/ (out.body # NoBody /\ stream.state = "closed"))
                   /\ stream' = EndStream(IF out.body = NoBody THEN stream
                                           ELSE Enqueue(stream, "current", out.body))
    /\ \E c \in Ended :
          runs' = [runs EXCEPT ![request.run] =
                      IF @.data.streamController = "current"
                      THEN [@ EXCEPT !.data.streamController = c] ELSE @]
    /\ UNCHANGED <<served, uiVars>>

\* the bodies of the requests to /chat and /chat/stream: every prompt alone,
\* and two of the prompts with every additionalContext
ChatBodies ==
    { [prompt |-> p, additionalContext |-> NoContext] : p \in Prompts }
    \cup { [prompt |-> p, additionalContext |-> c] :
              p \in {PlainPrompt, CapitalPrompt}, c \in Contexts }

\* the bodies of the requests to /chat/resume and /chat/resume/stream: every
\* stepPath with an approval, and the step path of a suspend response with a
\* refusal and with an approval without feedback
ResumeBodies ==
    { [runId |-> r, stepPath |-> sp, resumeData |-> ResumeData(TRUE, TRUE, "ok")] :
         r \in 1..MaxRuns, sp \in StepPaths }
    \cup { [runId |-> r, stepPath |-> ArrayPath(<<"userApproval">>),
            resumeData |-> ResumeData(TRUE, a, "")] : r \in 1..MaxRuns, a \in BOOLEAN }

NextChat ==
    \/ \E route \in {"/chat", "/chat/stream"}, body \in ChatBodies :
          Chat(route, body.prompt, body.additionalContext)
    \/ \E body \in ResumeBodies : ChatResume(body.runId, body.stepPath, body.resumeData)
    \/ \E body \in ResumeBodies :
          ChatResumeStream(body.runId, body.stepPath, body.resumeData)
    \/ FetchContext
    \/ BuildAgentContext
    \/ UserApproval
    \/ CallAgentProgress
    \/ AgentCall
    \/ \E ok \in BOOLEAN : AgentReturn(ok)
    \/ CallAgentResult
    \/ CallAgentComplete
    \/ Disconnect
    \/ Respond

\* the backend alone, in front of a DiffText that shows nothing
InitChat == FirstRender(<<>>, <<>>, "words", TRUE, TRUE)

SpecChat == InitChat /\ [][NextChat]_vars

TypeOK ==
    /\ DOMAIN fadeInst = Mounted(output, "FadeOutText")
    /\ DOMAIN typeInst = Mounted(output, "TypewriterText")
    /\ DOMAIN fadeInst \subseteq DOMAIN fadeAnim
    /\ DOMAIN typeInst \subseteq DOMAIN typeAnim
    /\ Len(output) = Len(changes)

----------------------------------------------------------------------------
(* Properties *)

\* every index a change of the texts above can have
AllIndices == UNION {Indices(diffFunction(old, new, mode)) :
                        old \in UITexts, new \in UITexts, mode \in Modes}

IsRemoved(i) == i \in Indices(changes) /\ changes[i + 1].removed

IsAdded(i) == i \in Indices(changes) /\ changes[i + 1].added

Rendered(i) == i \in Indices(output) /\ output[i + 1].type # "null"

NewDiff == oldText' # oldText \/ newText' # newText \/ diffMode' # diffMode

\* C1: a Removed segment that is rendered with showRemoved and animateChanges
\* and stays mounted has its completion callback called exactly once (at some
\* time, and never a second time), whatever re-renders and other completions
\* happen in between, and from then on it is absent from the render output.
C1_ExactlyOnce ==
    /\ [](\A i \in AllIndices :
            /\ Fired(i) <= 1
            /\ (Fired(i) = 1 /\ pending = <<>> /\ IsRemoved(i)) => ~Rendered(i))
    /\ \A i \in AllIndices :
            (i \in DOMAIN fadeInst) ~> (Fired(i) = 1 \/ i \notin DOMAIN fadeInst)

\* C2: removedParts is empty right after a render in which oldText, newText or
\* diffMode changed.
C2_ResetOnNewDiff ==
    [][(NewDiff /\ ~crashed') => removedParts' = {}]_vars

\* C3: an animator that is unmounted while its animation runs has its timers
\* stopped (the engine runs animations of mounted components only), and a
\* completion callback is called only for a FadeOutText that is mounted and
\* fading when the frame starts, never for a cancelled one.
C3_Cancellation ==
    /\ [](DOMAIN fadeAnim \subseteq DOMAIN fadeInst)
    /\ [](DOMAIN typeAnim \subseteq DOMAIN typeInst)
    /\ [][\A i \in AllIndices :
            Fired(i)' # Fired(i) =>
                (i \in DOMAIN fadeInst /\ fadeAnim[i].fade = "running")]_vars

\* C3 witness: a render has just unmounted a fading FadeOutText and a revealing
\* TypewriterText, and neither has an animation left
C3_Witness ==
    /\ cancelled.fade # {}
    /\ cancelled.reveal # {}
    /\ \A i \in cancelled.fade : i \notin DOMAIN fadeAnim
    /\ \A i \in cancelled.reveal : i \notin DOMAIN typeAnim

\* C4: while showRemoved is false no Removed segment is in the render output,
\* no FadeOutText animation exists and no completion callback is called, also
\* right after showRemoved went from true to false during a fade.
C4_Suppressed ==
    /\ [](~showRemoved =>
            /\ \A i \in AllIndices : IsRemoved(i) => ~Rendered(i)
            /\ DOMAIN fadeAnim = {})
    /\ [][~showRemoved => (fired' = fired /\ Len(pending') <= Len(pending))]_vars

\* C4 witness: showRemoved is false, the diff has a Removed segment, and the
\* render that hid it stopped its running fade
C4_Witness ==
    /\ ~showRemoved
    /\ cancelled.fade # {}
    /\ \A i \in cancelled.fade : IsRemoved(i)

StaticAdded(i) == output[i + 1] = Node("addedSpan", changes[i + 1].value)

StaticRemoved(i) == output[i + 1] = Node("removedSpan", changes[i + 1].value)

NoAnimation == DOMAIN fadeAnim = {} /\ DOMAIN typeAnim = {}

\* C5 as stated: with animateChanges false every Added segment, and with
\* showRemoved every Removed segment, is rendered statically with its full
\* text and no animation runs, whatever happened before.
C5_StaticAlways ==
    (~animateChanges /\ ~crashed) =>
        /\ \A i \in Indices(changes) :
            /\ IsAdded(i) => StaticAdded(i)
            /\ (IsRemoved(i) /\ showRemoved) => StaticRemoved(i)
        /\ NoAnimation

\* C5 amended: with animateChanges false every Added segment, and with
\* showRemoved every Removed segment whose index is not in removedParts, is
\* rendered statically with its full text, and no animation runs; a Removed
\* segment whose index is in removedParts is not rendered.
C5_StaticMode ==
    (~animateChanges /\ ~crashed) =>
        /\ \A i \in Indices(changes) :
            /\ IsAdded(i) => StaticAdded(i)
            /\ (IsRemoved(i) /\ showRemoved /\ i \notin removedParts) => StaticRemoved(i)
            /\ (IsRemoved(i) /\ i \in removedParts) => ~Rendered(i)
        /\ NoAnimation

\* C5 witness: a static render after animated ones: a removal completed
\* earlier, this render stopped a reveal, and it shows a Removed segment
C5_Witness ==
    /\ ~animateChanges
    /\ removedParts # {}
    /\ cancelled.reveal # {}
    /\ \E i \in Indices(changes) : IsRemoved(i) /\ StaticRemoved(i)
    /\ \E i \in Indices(changes) : IsRemoved(i) /\ i \in removedParts

\* C6: a segment whose index is in removedParts is not rendered, whatever its
\* kind, and one whose index is not in the set is rendered unless it is a
\* Removed segment and showRemoved is false.
C6_SetDecidesOutput ==
    \A i \in Indices(changes) :
        /\ i \in removedParts => ~Rendered(i)
        /\ i \notin removedParts =>
              (Rendered(i) <=> ~(changes[i + 1].removed /\ ~showRemoved))

\* the least n with n / len >= elapsed / duration: ceil(progress * length)
CeilOfProgress(len, elapsed, duration) ==
    CHOOSE n \in 0..len :
        /\ n * duration >= len * elapsed
        /\ \A m \in 0..len : m * duration >= len * elapsed => n <= m

\* C7: while a TypewriterText reveals a value that does not change, the prefix
\* it shows is the first ceil(progress * length) characters of the value, its
\* length never decreases from one update to the next, and it is the whole
\* value when the reveal has ended.
C7_Reveal ==
    /\ [](\A i \in DOMAIN typeInst :
            LET a == typeAnim[i]
            IN  /\ a.elapsed > 0 =>
                      typeInst[i].motionText =
                          SubSeq(a.text, 1, CeilOfProgress(Len(a.text), a.elapsed,
                                                           RevealDuration(Len(a.text))))
                /\ a.state = "finished" => typeInst[i].motionText = output[i + 1].text)
    /\ [][\A i \in (DOMAIN typeInst) \cap (DOMAIN typeInst') :
            (typeAnim[i].elapsed > 0 /\ typeAnim'[i].text = typeAnim[i].text
                                     /\ typeAnim'[i].elapsed >= typeAnim[i].elapsed)
            => /\ Len(typeInst'[i].motionText) >= Len(typeInst[i].motionText)
               /\ IsPrefix(typeInst[i].motionText, typeInst'[i].motionText)]_vars

\* C7 witness: a reveal under way that shows a proper, non-empty prefix
C7_Witness ==
    \E i \in DOMAIN typeInst :
        /\ typeAnim[i].state = "running"
        /\ typeInst[i].motionText # <<>>
        /\ Len(typeInst[i].motionText) < Len(output[i + 1].text)
        /\ IsPrefix(typeInst[i].motionText, output[i + 1].text)

\* C8: right after a render with a new diff every animated Removed segment is
\* at full opacity without strike-through and every animated Added segment
\* starts its own reveal from the empty text.
C8_FreshState ==
    [][(NewDiff /\ ~crashed') =>
          /\ \A i \in DOMAIN fadeInst' : fadeInst'[i] = NewFadeInst
          /\ \A i \in DOMAIN typeInst' :
                /\ typeInst'[i].motionText = <<>>
                /\ typeAnim'[i] = TypeEffect(output'[i + 1].text)]_vars

NotAdded == Concat([k \in 1..Len(changes) |->
                       IF changes[k].added THEN <<>> ELSE changes[k].value])

NotRemoved == Concat([k \in 1..Len(changes) |->
                         IF changes[k].removed THEN <<>> ELSE changes[k].value])

OneKind == \A k \in 1..Len(changes) : ~(changes[k].added /\ changes[k].removed)

RECURSIVE WithoutSpace(_)
WithoutSpace(t) ==
    IF t = <<>> THEN <<>>
    ELSE IF Head(t) \in Whitespace THEN WithoutSpace(Tail(t))
    ELSE <<Head(t)>> \o WithoutSpace(Tail(t))

EmptyIfNull(t) == IF IsNull(t) THEN <<>> ELSE t

\* C10: a null or undefined oldText or newText is rendered as the empty string
\* would be, and the render does not fail.
C10_NullAsEmpty ==
    (IsNull(oldText) \/ IsNull(newText)) =>
        /\ ~crashed
        /\ changes = diffFunction(EmptyIfNull(oldText), EmptyIfNull(newText), diffMode)
        /\ output = RenderOutput(changes, removedParts, showRemoved, animateChanges)

Unchanged(k) == ~changes[k].added /\ ~changes[k].removed

\* C11: when oldText and newText are one text, in words and in chars mode,
\* every segment of the diff is Unchanged and the segments concatenate to the
\* text; no FadeOutText and no TypewriterText is mounted and no animation
\* runs; and as long as the texts stay identical no completion callback is
\* called and removedParts does not change.
C11_Identical ==
    /\ [](oldText = newText =>
            /\ \A k \in 1..Len(changes) : Unchanged(k)
            /\ Concat([k \in 1..Len(changes) |-> changes[k].value]) = oldText
            /\ \A k \in 1..Len(output) : output[k].type = "unchangedSpan"
            /\ fadeInst = <<>> /\ typeInst = <<>>
            /\ fadeAnim = <<>> /\ typeAnim = <<>>
            /\ pending = <<>>)
    /\ [][(oldText = newText /\ oldText' = newText') =>
            (fired' = fired /\ pending' = pending /\ removedParts' = removedParts)]_vars

\* C11 witness: identical texts with whitespace in words mode, animation asked
\* for, after the diff shown before had completed a removal
C11_Witness ==
    /\ oldText = newText /\ diffMode = "words" /\ animateChanges /\ showRemoved
    /\ \E k \in 1..Len(oldText) : oldText[k] \in Whitespace
    /\ \E k \in 1..Len(oldText) : oldText[k] \in Letters
    /\ changes # <<>>
    /\ removedParts # {}

OnlyChange(value, added, removed) ==
    /\ Len(changes) = 1
    /\ changes[1].value = value
    /\ changes[1].added = added
    /\ changes[1].removed = removed

\* C12: with an empty oldText and a non-empty newText the diff is one Added
\* segment whose value is newText; with an empty newText and a non-empty
\* oldText it is one Removed segment whose value is oldText; with both empty
\* the diff has no segment.
C12_EmptyEdges ==
    /\ (oldText = <<>> /\ newText # <<>> /\ ~IsNull(newText)) =>
            OnlyChange(newText, TRUE, FALSE)
    /\ (newText = <<>> /\ oldText # <<>> /\ ~IsNull(oldText)) =>
            OnlyChange(oldText, FALSE, TRUE)
    /\ (oldText = <<>> /\ newText = <<>>) => changes = <<>>

\* C12 witness: an empty oldText and a newText of several words, in words mode
C12_Witness ==
    /\ oldText = <<>> /\ diffMode = "words"
    /\ Len(WordTokens(newText)) >= 3
    /\ OnlyChange(newText, TRUE, FALSE)

\* the table of reveal durations, in milliseconds, for a segment of n characters
StatedDuration(n) == IF n <= 12 THEN 500 ELSE IF n >= 38 THEN 1500 ELSE 40 * n

\* C13: the reveal of an Added segment of n characters lasts
\* max(500, min(1500, 40 * n)) milliseconds: 500 for n <= 12, 1500 for
\* n >= 38 and 40 * n in between; the reveal ends when that time has passed and
\* not before; a longer segment never gets a shorter reveal.
C13_Duration ==
    /\ [](\A i \in DOMAIN typeInst :
            LET a == typeAnim[i]
                n == Len(a.text)
                m == IF 40 * n < 1500 THEN 40 * n ELSE 1500
            IN  /\ a.duration = (IF m > 500 THEN m ELSE 500)
                /\ a.duration = StatedDuration(n)
                /\ a.elapsed <= a.duration
                /\ (a.state = "finished") <=> (a.elapsed = a.duration)
                /\ a.state \in {"running", "finished"})
    /\ [][\A i \in (DOMAIN typeInst) \cap (DOMAIN typeInst') :
            Len(typeAnim'[i].text) >= Len(typeAnim[i].text) =>
                typeAnim'[i].duration >= typeAnim[i].duration]_vars

\* C13 witness: the reveal of a segment of 38 characters or more has ended,
\* 1500 ms after it began
C13_Witness ==
    \E i \in DOMAIN typeInst :
        /\ Len(typeAnim[i].text) >= 38
        /\ typeAnim[i].state = "finished"
        /\ typeAnim[i].elapsed = 1500

\* C14: a mounted, animated Removed segment begins to fade 300 ms after it
\* was mounted and its completion callback is called 800 ms after it was
\* mounted (not before 600 ms), also when DiffText renders again in between:
\* a render of the same diff neither restarts nor postpones the strike-through
\* and the fade of a segment that stays mounted.
C14_NoRestart ==
    /\ [](\A i \in DOMAIN fadeInst :
            /\ fadeAnim[i].elapsed <= FadeDelay => fadeInst[i].opacity = "1"
            /\ fadeAnim[i].fade = "finished" =>
                  (fadeAnim[i].elapsed >= 600 /\ fadeAnim[i].elapsed <= 800))
    /\ [][\A i \in (DOMAIN fadeInst) \cap (DOMAIN fadeInst') :
            ~NewDiff => fadeAnim'[i].elapsed >= fadeAnim[i].elapsed]_vars

Queued == {pending[k] : k \in DOMAIN pending}

\* C15: when several Removed segments are animated at once and their fades
\* complete in one frame, in any order, or in different frames, the index of
\* every one of them ends up in removedParts: each completion is queued, every
\* queued index is in the set after the next render, and no index leaves the set.
C15_NoLostUpdate ==
    /\ [](\A i \in AllIndices : Fired(i) >= 1 => i \in removedParts \cup Queued)
    /\ [][/\ \A i \in AllIndices : Fired(i)' > Fired(i) => i \in Queued'
          /\ \A i \in Queued : i \in removedParts' \cup Queued'
          /\ pending' = <<>> => Queued \subseteq removedParts'
          /\ removedParts \subseteq removedParts']_vars

\* C15 witness: two Removed segments of one diff whose fades completed in the
\* same frame are both in the set after the render that followed
C15_Witness ==
    /\ IsRemoved(0) /\ IsRemoved(2)
    /\ Fired(0) = 1 /\ Fired(2) = 1
    /\ pending = <<>>
    /\ {0, 2} \subseteq removedParts

\* C16: removedParts changes only through the completion callback: a step
\* adds to the set nothing but the indices the callback queued, a completion
\* queues exactly the index of the mounted, animated Removed segment whose fade
\* ended in that frame, and no step removes a member; so every index in the
\* set is one for which the fade of a Removed segment completed.
C16_OnlyByCompletion ==
    /\ [](\A i \in removedParts \cup Queued : Fired(i) >= 1)
    /\ [][/\ removedParts \subseteq removedParts'
          /\ removedParts' \subseteq removedParts \cup Queued
          /\ Len(pending') > Len(pending) =>
                /\ SubSeq(pending', 1, Len(pending)) = pending
                /\ \A k \in (Len(pending) + 1)..Len(pending') : pending'[k] \in AllIndices
                /\ \A i \in AllIndices :
                      (\E k \in (Len(pending) + 1)..Len(pending') : pending'[k] = i) =>
                          /\ IsRemoved(i) /\ showRemoved /\ animateChanges
                          /\ output[i + 1].type = "FadeOutText"
                          /\ fadeAnim[i].fade = "running"
                          /\ fadeAnim'[i].fade = "finished"
                          /\ Fired(i)' = Fired(i) + 1
          /\ \A i \in AllIndices : Fired(i)' > Fired(i) =>
                \E k \in (Len(pending) + 1)..Len(pending') : pending'[k] = i]_vars

\* C16 witness: the set has grown to two members, one completion after the
\* other, each for a Removed segment of the diff shown at the time
C16_Witness ==
    /\ Cardinality(removedParts) = 2
    /\ \E i \in removedParts : IsRemoved(i) /\ ~Rendered(i)
    /\ \E i \in removedParts : ~IsRemoved(i)
    /\ \A i \in removedParts : Fired(i) = 1

\* C17: the update is copy-on-write: the completion callback leaves the set
\* that the last render read, and what that render returned, as they are; the
\* set of the next render is the previous set with the queued indices added;
\* and what is on screen is always the render of the set the state holds.
C17_CopyOnWrite ==
    /\ [](~crashed =>
            output = RenderOutput(changes, removedParts, showRemoved, animateChanges))
    /\ [][Len(pending') > Len(pending) =>
            (removedParts' = removedParts /\ output' = output)]_vars
    /\ [][(pending # <<>> /\ pending' = <<>>) =>
            removedParts' = removedParts \cup Queued]_vars

\* C17 witness: a completion was called back and the render has not happened
\* yet: the set is the one that was read, and the segment is still in the output
C17_Witness ==
    /\ pending # <<>>
    /\ \E i \in Queued : i \notin removedParts /\ Rendered(i) /\ Fired(i) = 1

\* the text prop of the TypewriterText of the Added segment at index i
TextProp(out, i) == out[i + 1].text

\* C18: when the text of a mounted Added segment changes, the running reveal
\* is cancelled (no animation of an earlier text goes on) and a new one
\* starts from 0 for the new text, with the
\* duration computed from the new text; the displayed text is not changed by
\* that render, every later update of it is a prefix of the current text, and
\* once the new reveal has updated it the displayed text is a prefix of the
\* current text.
C18_Restart ==
    /\ [](strays = {})
    /\ [](\A i \in DOMAIN typeInst :
            /\ typeAnim[i].text = TextProp(output, i)
            /\ typeAnim[i].duration = RevealDuration(Len(TextProp(output, i)))
            /\ typeAnim[i].elapsed > 0 =>
                  IsPrefix(typeInst[i].motionText, TextProp(output, i)))
    /\ [][\A i \in (DOMAIN typeInst) \cap (DOMAIN typeInst') :
            /\ TextProp(output', i) # TextProp(output, i) =>
                  /\ typeAnim'[i].state = "running" /\ typeAnim'[i].elapsed = 0
                  /\ typeAnim'[i].text = TextProp(output', i)
                  /\ typeInst'[i] = typeInst[i]
            /\ typeInst'[i] # typeInst[i] =>
                  /\ TextProp(output', i) = TextProp(output, i)
                  /\ IsPrefix(typeInst'[i].motionText, TextProp(output, i))]_vars

\* C18 witness: the text grew while its reveal was running; the new reveal has
\* started and has not updated the displayed text yet
C18_Witness ==
    \E i \in DOMAIN typeInst :
        /\ typeAnim[i].state = "running" /\ typeAnim[i].elapsed = 0
        /\ typeInst[i].motionText # <<>>
        /\ Len(typeInst[i].motionText) < Len(typeAnim[i].text) - 1
        /\ RevealDuration(Len(typeAnim[i].text)) > RevealDuration(Len(typeAnim[i].text) - 1)

\* C19: stopping an animation that has completed does nothing: the render
\* that unmounts a Removed segment whose fade has completed does not fail in
\* the cleanup, does not call the completion callback again, queues no update,
\* leaves nothing running for the segment and changes removedParts by nothing
\* but the updates that were queued before; the callback of an index is never
\* called a second time.
C19_StopCompleted ==
    /\ [](\A i \in AllIndices : Fired(i) <= 1)
    /\ [][\A i \in DOMAIN fadeInst :
            (fadeAnim[i].fade = "finished" /\ i \notin DOMAIN fadeInst') =>
                /\ crashed' => (IsNull(oldText') \/ IsNull(newText'))
                /\ Fired(i)' = Fired(i)
                /\ pending' = <<>>
                /\ removedParts' = removedParts \cup Queued
                /\ i \notin DOMAIN fadeAnim']_vars

\* C19 witness: the fade of the only Removed segment completed, and the
\* render that followed unmounted the segment
C19_Witness ==
    /\ ~crashed /\ showRemoved /\ animateChanges /\ pending = <<>>
    /\ IsRemoved(0) /\ ~Rendered(0) /\ Fired(0) = 1
    /\ removedParts = {0}
    /\ fadeInst = <<>> /\ fadeAnim = <<>>

\* the state of the animator of a mounted Removed segment: 1 StrikingThrough,
\* 2 FadingOut (the opacity is being animated), 3 Done (the fade has completed)
AnimatorRank(anim) ==
    IF anim.fade = "finished" THEN 3 ELSE IF anim.elapsed > FadeDelay THEN 2 ELSE 1

\* C20: the animator of a mounted Removed segment only moves forward, from
\* StrikingThrough to FadingOut to Done: the fade does not begin before the
\* strike-through has, Done is reached only when the opacity animation has
\* completed, and while the segment stays mounted for the same diff no state
\* is entered again after a later one was reached.
C20_ForwardOnly ==
    /\ [](\A i \in DOMAIN fadeInst :
            /\ AnimatorRank(fadeAnim[i]) = 2 => fadeInst[i].strikethrough # "0"
            /\ AnimatorRank(fadeAnim[i]) = 3 =>
                  (fadeInst[i].opacity = "0" /\ fadeAnim[i].elapsed = FadeTotal))
    /\ [][\A i \in (DOMAIN fadeInst) \cap (DOMAIN fadeInst') :
            ~NewDiff => AnimatorRank(fadeAnim'[i]) >= AnimatorRank(fadeAnim[i])]_vars


----------------------------------------------------------------------------
(* chatWorkflow *)

\* the prompts of Prompts that contain "sensitive" or "approve" in some
\* spelling: "Sensitive" and "disAPPROVEd"
WordPrompts == {CapitalPrompt, InnerPrompt}

\* the pairs of steps that may follow each other in a run
StatedOrder ==
    { <<"fetchContext", "buildAgentContext">>, <<"buildAgentContext", "userApproval">>,
      <<"userApproval", "userApproval">>, <<"userApproval", "callAgent">> }

\* the last resume of the run was one with approved = true
ApprovedByResume(run) == run.resumeData.present /\ run.resumeData.approved

\* the step of the model executed userApproval in run r
ExecutedUserApproval(r) ==
    /\ r \in DOMAIN runs
    /\ Len(runs'[r].trace) = Len(runs[r].trace) + 1
    /\ runs'[r].trace[Len(runs'[r].trace)] = "userApproval"

C21_Steps ==
    \A r \in DOMAIN runs :
        LET run == runs[r]
        IN  /\ run.trace # <<>> => run.trace[1] = "fetchContext"
            /\ \A k \in 1..(Len(run.trace) - 1) :
                  <<run.trace[k], run.trace[k + 1]>> \in StatedOrder
            /\ \A k \in DOMAIN run.trace :
                  (run.trace[k] = "callAgent" /\ run.data.prompt \in WordPrompts)
                      => ApprovedByResume(run)
            /\ run.data.prompt \notin WordPrompts => run.status # "suspended"
            /\ (request.pc = "done" /\ run.resumeData.present /\ ~run.resumeData.approved)
                  => run.status = "suspended"

C21_UserApproval ==
    \A r \in 1..MaxRuns :
        ExecutedUserApproval(r) =>
            IF runs[r].data.prompt \in WordPrompts /\ ~ApprovedByResume(runs[r])
            THEN runs'[r].status = "suspended" /\ runs'[r].next = "userApproval"
            ELSE /\ runs'[r].status = "running" /\ runs'[r].next = "callAgent"
                 /\ runs'[r].data.approved
                 /\ runs[r].data.prompt \notin WordPrompts =>
                       /\ runs'[r].data.feedback = "Auto-approved"
                       /\ ~runs[r].resumeData.present

\* C21: the steps of a run of chatWorkflow are executed in the order
\* fetchContext, buildAgentContext, userApproval, callAgent; for a prompt
\* that contains "sensitive" or "approve" in any case userApproval suspends
\* the run and callAgent is executed only after a resume with approved =
\* true, a resume with approved = false leaves the run suspended; for any
\* other prompt userApproval approves without suspension, with the feedback
\* 'Auto-approved'
C21_Approval == [](C21_Steps) /\ [][C21_UserApproval]_vars

\* a run with the prompt "Sensitive" or "disAPPROVEd" that was suspended,
\* resumed with approved = true and then called the agent
C21_Witness ==
    \E r \in DOMAIN runs :
        /\ runs[r].data.prompt \in WordPrompts
        /\ runs[r].trace = <<"fetchContext", "buildAgentContext", "userApproval",
                             "userApproval", "callAgent">>
        /\ runs[r].status = "success"

\* a refusal: the run is suspended again by a resume with approved = false
C21_Refused ==
    \E r \in DOMAIN runs :
        /\ runs[r].resumeData.present /\ ~runs[r].resumeData.approved
        /\ runs[r].status = "suspended"
        /\ request.pc = "done"

----------------------------------------------------------------------------
(* The step to resume *)

\* the stepPath a request that resumes was given: the one of the first entry
\* of humanInTheLoop.data on /chat and /chat/stream, the one of the body on
\* /chat/resume and /chat/resume/stream
GivenStepPath(req) ==
    IF req.route \in {"/chat", "/chat/stream"}
    THEN req.context.data[1].stepPath
    ELSE req.stepPath

\* the step that is stated for a stepPath
StatedStep(stepPath) ==
    CASE stepPath.kind = "nested" -> stepPath.lists[1]
      [] stepPath.kind = "array" -> stepPath.list
      [] stepPath.kind = "string" -> <<stepPath.str>>
      [] stepPath.kind = "missing" -> <<"userApproval">>

\* C22: on every route the step handed to workflowRun.resume is derived
\* from the stepPath in the same way: the first element of a string[][],
\* a string[] itself, [s] for a string s, and ['userApproval'] without a
\* stepPath
C22_SameStep ==
    request.action = "resume" => request.step = StatedStep(GivenStepPath(request))

\* the same for the requests to /chat and /chat/stream alone, whose
\* stepPath is never an empty string
C22_ChatStep ==
    (request.action = "resume" /\ request.route \in {"/chat", "/chat/stream"})
        => request.step = StatedStep(GivenStepPath(request))

----------------------------------------------------------------------------
(* /chat and /chat/stream *)

\* the first entry of additionalContext.humanInTheLoop.data has a runId, a
\* stepPath and the state 'suspended'
HasSuspendedEntry(additionalContext) ==
    /\ additionalContext.kind # "missing"
    /\ additionalContext.json
    /\ additionalContext.hasData
    /\ additionalContext.data # <<>>
    /\ additionalContext.data[1].runId # 0
    /\ additionalContext.data[1].stepPath.kind # "missing"
    /\ additionalContext.data[1].state = "suspended"

\* the request is one to /chat or /chat/stream
ChatRequest ==
    request.pc \in {"awaiting", "done"} /\ request.route \in {"/chat", "/chat/stream"}

\* the request resumes the run of the entry with approved = true and starts
\* no run, or it starts a run and resumes none
ResumesOrStarts ==
    IF HasSuspendedEntry(request.context)
    THEN /\ request.action = "resume"
         /\ request.run = request.context.data[1].runId
         /\ request.approved
         /\ request.started = 0
    ELSE /\ request.action = "start"
         /\ request.started = Len(runs)
         /\ request.run = request.started

\* the body is what the response of the request gives the client: the JSON
\* body of /chat, an event of the stream of /chat/stream
Responds(body) ==
    IF request.route = "/chat" THEN response.body = body
    ELSE \E k \in DOMAIN stream.events : stream.events[k] = body

\* the response has no body of the given type
RespondsNo(type) ==
    /\ response.body.type # type
    /\ \A k \in DOMAIN stream.events : stream.events[k].type # type

\* the response is an error: the 500 of /chat, an error event or a throw in
\* the stream of /chat/stream
RespondsError ==
    IF request.route = "/chat" THEN response.code = 500 /\ response.body.type = "error"
    ELSE response.threw \/ \E k \in DOMAIN stream.events : stream.events[k].type = "error"

\* the response of a request that is done, for a client that stayed; the
\* run of a request whose resume threw neither succeeded nor suspended
StatedResponse ==
    (request.pc = "done" /\ stream.state # "closed") =>
        IF ~request.threw /\ runs[request.run].status = "success"
        THEN Responds(ChatOutput(runs[request.run].content)) /\ RespondsNo("humanInTheLoop")
             /\ ~RespondsError
        ELSE IF ~request.threw /\ runs[request.run].status = "suspended"
             THEN /\ \E message \in {"Workflow suspended - approval required",
                                     "Workflow suspended again - approval required"} :
                        Responds(Event("humanInTheLoop", message, "suspended", "",
                                       request.run, <<"userApproval">>))
                  /\ RespondsNo("ChatOutput") /\ ~RespondsError
             ELSE RespondsError /\ RespondsNo("ChatOutput") /\ RespondsNo("humanInTheLoop")

\* the additionalContext is a string that JSON.parse rejects
Rejected(additionalContext) ==
    additionalContext.kind = "string" /\ ~additionalContext.json

\* the request neither resumes nor starts a run and is answered with the
\* error 500
NeitherOfTwo ==
    /\ request.action = "none" /\ request.run = 0 /\ request.started = 0
    /\ request.pc = "done"
    /\ response.code = 500 /\ response.body.type = "error"
    /\ stream.events = <<>>

\* C23 as stated: a request to /chat or /chat/stream whose first
\* humanInTheLoop entry has a runId, a stepPath and the state 'suspended'
\* resumes that run with approved = true and starts no run, any other
\* request starts a run and resumes none; the response is the ChatOutput
\* when the run succeeds, a humanInTheLoop response with the status
\* 'suspended', the runId and the suspended step path when it suspends, and
\* an error otherwise
C23_OneOfTwo == ChatRequest => ResumesOrStarts /\ StatedResponse

\* C23: the same for the requests whose additionalContext is absent, an
\* object or a string of JSON text; a request whose additionalContext is a
\* string that is not JSON text resumes no run, starts no run and is
\* answered with an error
C23_Parsed ==
    ChatRequest =>
        IF Rejected(request.context) THEN NeitherOfTwo
        ELSE ResumesOrStarts /\ StatedResponse

\* a request to /chat that resumed a suspended run and was answered with
\* the ChatOutput of the run
C23_Witness ==
    /\ ChatRequest /\ request.pc = "done" /\ request.route = "/chat"
    /\ request.action = "resume" /\ ~request.threw
    /\ runs[request.run].status = "success"
    /\ response.body = ChatOutput("reply")

\* a request to /chat/stream that was rejected
C23_RejectedWitness ==
    ChatRequest /\ request.route = "/chat/stream" /\ Rejected(request.context)


----------------------------------------------------------------------------
(* callAgent *)

Generating == ProgressUpdate("Generating response...", "in_progress")

Generated == ProgressUpdate("Response generated", "complete")

\* the sequences that are left of s when some of its elements are taken out
SubSequences(s) ==
    { [k \in 1..Cardinality(keep) |->
          s[CHOOSE i \in keep : Cardinality({j \in keep : j < i}) = k - 1]] :
      keep \in SUBSET DOMAIN s }

\* what callAgent has emitted in a run of the state
C24_Emitted ==
    \A r \in DOMAIN runs :
        LET run == runs[r]
        IN  /\ run.emitted \in SubSequences(<<Generating, ChatOutput("reply"), Generated>>)
            /\ run.data.streamController = "undefined" => run.emitted = <<>>
            /\ run.agent \in {"idle", "called"} => run.emitted \in {<<>>, <<Generating>>}
            /\ (request.pc = "done" /\ run.agent = "returned")
                  => run.status = "success" /\ run.content = "reply"
            /\ run.status = "success" => run.agent = "returned"

\* what a step of callAgent emits
C24_Emission ==
    \A r \in 1..MaxRuns :
        (r \in DOMAIN runs /\ runs[r].pos # runs'[r].pos) =>
            LET run == runs[r]
                emits(event) == /\ runs'[r].emitted = Append(run.emitted, event)
                                /\ stream'.events = Append(stream.events, event)
                silent == runs'[r].emitted = run.emitted /\ stream' = stream
            IN  /\ run.data.streamController \notin {"current", "stale"} => silent
                /\ CASE run.pos = "start" ->
                            /\ emits(Generating) \/ silent
                            /\ run.agent = "idle" /\ runs'[r].agent = "idle"
                     [] run.pos = "result" ->
                            /\ emits(ChatOutput("reply")) \/ silent
                            /\ run.agent = "returned"
                     [] run.pos = "complete" ->
                            /\ emits(Generated) \/ silent
                            /\ run.agent = "returned"
                            /\ runs'[r].status = "success"
                     [] OTHER -> silent

\* C24: with a valid stream controller callAgent emits the progress update
\* 'Generating response...' (in_progress) before the agent is called, and
\* after the agent returned the result and then the progress update
\* 'Response generated' (complete); an emission that fails is skipped and
\* the step still returns the result; without a valid controller callAgent
\* emits nothing
C24_Emissions == [](C24_Emitted) /\ [][C24_Emission]_vars

\* a run whose callAgent emitted the three events on the stream of its
\* request and returned
C24_Witness ==
    \E r \in DOMAIN runs :
        /\ runs[r].emitted = <<Generating, ChatOutput("reply"), Generated>>
        /\ stream.events = runs[r].emitted
        /\ runs[r].status = "success"

\* a run whose callAgent had a valid controller, failed to emit the result
\* and the last progress update, and returned
C24_FailedWitness ==
    \E r \in DOMAIN runs :
        /\ runs[r].emitted = <<Generating>>
        /\ runs[r].data.streamController = "current"
        /\ runs[r].status = "success"
====
